---- MODULE Spec2Model ----
(***************************************************************************)
(* Model of eventeditor's "Edit parents" dialog                            *)
(* (src/eventeditor/event_parent_edit_dialog.py): the ParentLinkModel list *)
(* of desired parent links, the dialog's addParent / removeRow / accept /  *)
(* reject handlers, and the reconciliation of the list into the flowchart  *)
(* graph done by EditParentsDialog._applyChanges; and of the standalone    *)
(* timeline window (src/eventeditor/timeline.py) with its TimelineEditor   *)
(* widget (src/eventeditor/timeline_editor.py).                            *)
(***************************************************************************)
EXTENDS Integers, Sequences, FiniteSets, TLC

(* ------------------------------ bounds -------------------------------- *)
\* Switch discriminants are drawn from 0..MaxVal.
MaxVal == 1
\* A fork event holds at most MaxForks branches in an initial graph.
MaxForks == 2
\* An arbitrary desired list handed to ParentLinkModel holds at most
\* MaxDesired links.
MaxDesired == 2
\* A desired list with a duplicate switch case holds at most MaxDupDesired
\* links: the two equal links and one more.
MaxDupDesired == 3
\* "Add parent..." is used only while the list holds fewer than MaxLinks links.
MaxLinks == 2
\* A fork event reconciled on its own holds at most MaxForkLen branches and
\* is wanted as a ForkBranch parent at most MaxForkDesired times.
MaxForkLen == 3
MaxForkDesired == 3
\* A clips list of the timeline window holds at most MaxClips clips.
MaxClips == 2

(* ------------------------- program constants -------------------------- *)
\* ParentLinkType (IntEnum)
LinkNext == 0
SwitchCase == 1
ForkBranch == 2
\* Python's None as the value of an Index (nxt.v) / of ParentLink.detail
NoEvent == 0
NoDetail == 0 - 1

\* The payload classes of evfl events; "Other" is a payload that is none of
\* the five classes the dialog tests with isinstance.
SeqKinds == {"ActionEvent", "JoinEvent", "SubFlowEvent"}

\* flow.flowchart.events, in order: the payload class of each event.  The
\* payload class of an event never changes while the dialog is open.
Layouts == { <<"ActionEvent", "SwitchEvent", "Other">>,
             <<"JoinEvent", "ForkEvent", "SubFlowEvent">>,
             <<"ForkEvent", "SwitchEvent">> }
\* the flowcharts on which _applyChanges is run with an arbitrary list
AnyLayouts == { <<"ActionEvent", "SwitchEvent">>,
                <<"JoinEvent", "ForkEvent">> }
Values == 0..MaxVal

VARIABLES
    has_flowchart,  \* flow_data.flow and flow_data.flow.flowchart are set
    kind,           \* kind[e]: payload class of event e (type(e.data))
    nxt,            \* nxt[e]: e.data.nxt.v of a sequential event (NoEvent = None)
    cases,          \* cases[e]: e.data.cases of a switch event, as the dict's
                    \* insertion-ordered sequence of <<value, target>>
    forks,          \* forks[e]: e.data.forks of a fork event (targets, in order)
    child_event,    \* self.child_event
    l,              \* self.model.l, the desired links
    dlg,            \* "open" | "accepted" | "rejected"
    emitted,        \* flowDataChanged(Events) emissions of this dialog
    last,           \* what the last handler did (its inputs and results)
    pre,            \* graph and list as they were when the last handler began
    seeded          \* the list ParentLinkModel was constructed with

\* TimelineEditorWindow and its TimelineEditor
VARIABLES
    current_file,     \* window.current_file (NoFile = None)
    current_flow,     \* window.current_flow is a flow object (0 = None, 1 = set)
    title,            \* window.windowTitle()
    timeline_editor,  \* window.timeline_editor has been created
    timeline,         \* editor.timeline is the timeline object of the flow
                      \* opened last (0 = None, 1 = set)
    selected_clip,    \* editor.selected_clip (NoClip = None)
    current_clip,     \* editor.properties_panel.current_clip (NoClip = None)
    panel_enabled,    \* editor.properties_panel.isEnabled()
    clips,            \* the clips list of the timeline of the flow opened last;
                      \* an earlier flow is referenced by nothing but the clip
                      \* objects in selected_clip and current_clip
    closed,           \* a close event of the window was accepted
    dirty,            \* the loaded flow holds changes not written to its file
    tlast             \* what the last handler of the window or editor did

dvars == <<has_flowchart, kind, nxt, cases, forks, child_event, l, dlg, emitted,
           last, pre, seeded>>
tvars == <<current_file, current_flow, title, timeline_editor, timeline,
           selected_clip, current_clip, panel_enabled, clips, closed, dirty, tlast>>
vars == <<dvars, tvars>>

\* the events of flow.flowchart.events, numbered in list order
Events == DOMAIN kind
Targets == Events \cup {NoEvent}

(* ------------------------------ helpers ------------------------------- *)
IsSeq(k) == k \in SeqKinds

Graph(nx, cs, fk) == [nxt |-> nx, cases |-> cs, forks |-> fk]

\* dict helpers on an insertion-ordered sequence of <<key, value>>
Keys(d) == {d[i][1] : i \in 1..Len(d)}
Get(d, k) == LET i == CHOOSE j \in 1..Len(d) : d[j][1] = k IN d[i][2]
Items(d) == {d[i] : i \in 1..Len(d)}

\* the removal loop of the switch branch deleting nothing
SelectPairsKeepAll(d, i, child, keep) == d

RECURSIVE SelectPairs(_, _, _, _)
\* the entries of d that are kept when every entry targeting child whose key
\* is not in keep is deleted (del data.cases[value]); order is preserved
SelectPairs(d, i, child, keep) ==
    IF i > Len(d) THEN <<>>
    ELSE IF d[i][2] = child /\ d[i][1] \notin keep
         THEN SelectPairs(d, i + 1, child, keep)
         ELSE <<d[i]>> \o SelectPairs(d, i + 1, child, keep)

RECURSIVE SortedSeq(_)
\* iteration order of a Python set of small non-negative ints: ascending
SortedSeq(S) ==
    IF S = {} THEN <<>>
    ELSE LET m == CHOOSE x \in S : \A y \in S : x <= y
         IN <<m>> \o SortedSeq(S \ {m})

(* ---------------------------- ParentLink ------------------------------ *)
ParentLink(parent, link_type, detail) ==
    [parent |-> parent, link_type |-> link_type, detail |-> detail]

\* ParentLink.__eq__ without the comparison of detail
LinkEqNoDetail(a, b) ==
    a.parent = b.parent /\ a.link_type = b.link_type

\* ParentLink.__eq__ that takes two links without detail for different
LinkEqDetailOnly(a, b) ==
    /\ a.parent = b.parent /\ a.link_type = b.link_type /\ a.detail = b.detail
    /\ a.detail # NoDetail

\* ParentLink.__eq__
LinkEq(a, b) ==
    a.parent = b.parent /\ a.link_type = b.link_type /\ a.detail = b.detail

(* -------------------------- ParentLinkModel --------------------------- *)
\* isValid without the check
isValidAlways(links) == TRUE

\* ParentLinkModel.isValid: no (parent, value) of a SwitchCase link seen twice
isValid(links) ==
    ~ \E i \in 1..Len(links) : \E j \in 1..(i - 1) :
          /\ links[i].link_type = SwitchCase
          /\ links[j].link_type = SwitchCase
          /\ links[j].parent = links[i].parent
          /\ links[j].detail = links[i].detail

\* appendLink without the duplicate test
appendLinkAlways(links, link) == [ret |-> TRUE, l |-> Append(links, link)]

\* ParentLinkModel.appendLink: [ret, l]
appendLink(links, link) ==
    IF \E i \in 1..Len(links) : LinkEq(link, links[i])
    THEN [ret |-> FALSE, l |-> links]
    ELSE [ret |-> TRUE, l |-> Append(links, link)]

\* ParentLinkModel.removeRow: self.l.pop(row), row counted from 1 here
removeRow(links, row) ==
    [i \in 1..(Len(links) - 1) |-> IF i < row THEN links[i] ELSE links[i + 1]]

(* ------------------------- EditParentsDialog -------------------------- *)
RECURSIVE SwitchLinks(_, _, _, _)
\* the SwitchCase links of switch event e, in the order of data.cases.items()
SwitchLinks(e, d, i, child) ==
    IF i > Len(d) THEN <<>>
    ELSE (IF d[i][2] = child THEN <<ParentLink(e, SwitchCase, d[i][1])>> ELSE <<>>)
         \o SwitchLinks(e, d, i + 1, child)

RECURSIVE ForkLinks(_, _, _, _)
\* one ForkBranch link per entry of data.forks that targets child
ForkLinks(e, f, i, child) ==
    IF i > Len(f) THEN <<>>
    ELSE (IF f[i] = child THEN <<ParentLink(e, ForkBranch, NoDetail)>> ELSE <<>>)
         \o ForkLinks(e, f, i + 1, child)

\* the links one event contributes to _gatherExistingLinks
EventLinks(e, k, g, child) ==
    IF IsSeq(k[e])
    THEN (IF g.nxt[e] = child THEN <<ParentLink(e, LinkNext, NoDetail)>> ELSE <<>>)
    ELSE IF k[e] = "SwitchEvent" THEN SwitchLinks(e, g.cases[e], 1, child)
    ELSE IF k[e] = "ForkEvent" THEN ForkLinks(e, g.forks[e], 1, child)
    ELSE <<>>

RECURSIVE GatherFrom(_, _, _, _)
GatherFrom(e, k, g, child) ==
    IF e > Len(k) THEN <<>>
    ELSE EventLinks(e, k, g, child) \o GatherFrom(e + 1, k, g, child)

\* EditParentsDialog._gatherExistingLinks
gatherExistingLinks(hasfc, k, g, child) ==
    IF ~hasfc THEN <<>> ELSE GatherFrom(1, k, g, child)

\* desired_next, desired_switch[e], desired_fork_count[e] of _applyChanges
DesiredNext(links) ==
    {links[i].parent : i \in {j \in 1..Len(links) : links[j].link_type = LinkNext}}
DesiredSwitch(links, e) ==
    {links[i].detail : i \in {j \in 1..Len(links) :
        links[j].link_type = SwitchCase /\ links[j].parent = e}}
DesiredForkCount(links, e) ==
    Cardinality({j \in 1..Len(links) :
        links[j].link_type = ForkBranch /\ links[j].parent = e})

\* _applyChanges that collects nothing into to_overwrite
ToOverwriteNever(k, g, child, links) == {}

\* to_overwrite without the "is not self.child_event" test
ToOverwriteAnySet(k, g, child, links) ==
    {p \in DesiredNext(links) \cap DOMAIN k : IsSeq(k[p]) /\ g.nxt[p] # NoEvent}

\* to_overwrite: sequential parents of desired Next links whose next is set
\* and is not the child
ToOverwrite(k, g, child, links) ==
    {p \in DesiredNext(links) \cap DOMAIN k :
        IsSeq(k[p]) /\ g.nxt[p] # NoEvent /\ g.nxt[p] # child}

\* the sequential branch clearing the next of every parent that is not desired
ApplySeqAlwaysClear(e, g, child, links) ==
    IF e \in DesiredNext(links) THEN child ELSE NoEvent

\* the sequential branch of the apply loop: the new nxt.v of e
ApplySeq(e, g, child, links) ==
    IF e \in DesiredNext(links) THEN child
    ELSE IF g.nxt[e] = child THEN NoEvent
    ELSE g.nxt[e]

RECURSIVE AddCasesOverwrite(_, _, _, _)
\* the "add desired cases" loop without the conflict test: a value bound to
\* another event is rebound to child
AddCasesOverwrite(d, vals, i, child) ==
    IF i > Len(vals) THEN [ok |-> TRUE, cases |-> d]
    ELSE IF vals[i] \notin Keys(d)
         THEN AddCasesOverwrite(Append(d, <<vals[i], child>>), vals, i + 1, child)
         ELSE AddCasesOverwrite(
                  [j \in 1..Len(d) |-> IF d[j][1] = vals[i] THEN <<vals[i], child>> ELSE d[j]],
                  vals, i + 1, child)

RECURSIVE AddCases(_, _, _, _)
\* the "add desired cases" loop over vals (in iteration order) on dict d:
\* [ok, cases]; stops at the first value bound to an event other than child
AddCases(d, vals, i, child) ==
    IF i > Len(vals) THEN [ok |-> TRUE, cases |-> d]
    ELSE IF vals[i] \in Keys(d) /\ Get(d, vals[i]) # child
         THEN [ok |-> FALSE, cases |-> d]
         ELSE IF vals[i] \notin Keys(d)
              THEN AddCases(Append(d, <<vals[i], child>>), vals, i + 1, child)
              ELSE AddCases(d, vals, i + 1, child)

\* the switch branch of the apply loop: [ok, cases]
ApplySwitch(e, g, child, links) ==
    LET desired_cases == DesiredSwitch(links, e)
        removed == SelectPairs(g.cases[e], 1, child, desired_cases)
    IN AddCases(removed, SortedSeq(desired_cases), 1, child)

RECURSIVE KeepForksChildOnly(_, _, _, _)
\* the "remove extras" loop keeping only entries that target child
KeepForksChildOnly(f, i, child, remaining) ==
    IF i > Len(f) THEN <<>>
    ELSE IF f[i] = child /\ remaining > 0
         THEN <<f[i]>> \o KeepForksChildOnly(f, i + 1, child, remaining - 1)
         ELSE KeepForksChildOnly(f, i + 1, child, remaining)

RECURSIVE KeepForksFromEnd(_, _, _, _)
\* the "remove extras" loop keeping the last entries that target child
\* instead of the first
KeepForksFromEnd(f, i, child, remaining) ==
    IF i > Len(f) THEN <<>>
    ELSE LET later == Cardinality({j \in (i + 1)..Len(f) : f[j] = child})
         IN IF f[i] # child \/ later < remaining
            THEN <<f[i]>> \o KeepForksFromEnd(f, i + 1, child, remaining)
            ELSE KeepForksFromEnd(f, i + 1, child, remaining)

RECURSIVE KeepForks(_, _, _, _)
\* the "remove extras" loop: entries not targeting child are kept, entries
\* targeting child are kept while remaining > 0
KeepForks(f, i, child, remaining) ==
    IF i > Len(f) THEN <<>>
    ELSE IF f[i] # child THEN <<f[i]>> \o KeepForks(f, i + 1, child, remaining)
    ELSE IF remaining > 0 THEN <<f[i]>> \o KeepForks(f, i + 1, child, remaining - 1)
    ELSE KeepForks(f, i + 1, child, remaining)

\* the fork branch without the "add missing forks" loop
ApplyForkNoAppend(e, g, child, links) ==
    LET current == Cardinality({i \in 1..Len(g.forks[e]) : g.forks[e][i] = child})
        desired == DesiredForkCount(links, e)
    IN IF desired < current THEN KeepForks(g.forks[e], 1, child, desired)
       ELSE g.forks[e]

\* the fork branch putting the missing forks in front
ApplyForkPrepend(e, g, child, links) ==
    LET current == Cardinality({i \in 1..Len(g.forks[e]) : g.forks[e][i] = child})
        desired == DesiredForkCount(links, e)
    IN IF desired < current THEN KeepForks(g.forks[e], 1, child, desired)
       ELSE IF desired > current
            THEN [i \in 1..(desired - current) |-> child] \o g.forks[e]
            ELSE g.forks[e]

\* the fork branch of the apply loop: the new data.forks of e
ApplyFork(e, g, child, links) ==
    LET current == Cardinality({i \in 1..Len(g.forks[e]) : g.forks[e][i] = child})
        desired == DesiredForkCount(links, e)
    IN IF desired < current THEN KeepForks(g.forks[e], 1, child, desired)
       ELSE IF desired > current
            THEN g.forks[e] \o [i \in 1..(desired - current) |-> child]
            ELSE g.forks[e]

RECURSIVE ApplyLoop(_, _, _, _, _)
\* "for e in flow.flowchart.events" from event e on: [ok, g]; a switch
\* conflict returns from the whole function with the graph as mutated so far
ApplyLoop(e, k, g, child, links) ==
    IF e > Len(k) THEN [ok |-> TRUE, g |-> g]
    ELSE IF IsSeq(k[e])
         THEN ApplyLoop(e + 1, k,
                  [g EXCEPT !.nxt[e] = ApplySeq(e, g, child, links)], child, links)
    ELSE IF k[e] = "SwitchEvent"
         THEN LET r == ApplySwitch(e, g, child, links)
                  g2 == [g EXCEPT !.cases[e] = r.cases]
              IN IF r.ok THEN ApplyLoop(e + 1, k, g2, child, links)
                 ELSE [ok |-> FALSE, g |-> g2]
    ELSE IF k[e] = "ForkEvent"
         THEN ApplyLoop(e + 1, k,
                  [g EXCEPT !.forks[e] = ApplyFork(e, g, child, links)], child, links)
    ELSE ApplyLoop(e + 1, k, g, child, links)

\* _applyChanges asking the overwrite question before it tests isValid()
applyChangesAskFirst(hasfc, k, g, child, links, yes) ==
    IF ~hasfc THEN [ret |-> FALSE, g |-> g, asked |-> FALSE, why |-> "noflow"]
    ELSE LET ask == ToOverwrite(k, g, child, links) # {}
         IN IF ask /\ ~yes
            THEN [ret |-> FALSE, g |-> g, asked |-> TRUE, why |-> "declined"]
            ELSE IF ~isValid(links)
                 THEN [ret |-> FALSE, g |-> g, asked |-> ask, why |-> "invalid"]
            ELSE LET r == ApplyLoop(1, k, g, child, links)
                 IN [ret |-> r.ok, g |-> r.g, asked |-> ask,
                     why |-> IF r.ok THEN "ok" ELSE "conflict"]

\* _applyChanges asking the overwrite question after the apply loop
applyChangesAskLate(hasfc, k, g, child, links, yes) ==
    IF ~hasfc THEN [ret |-> FALSE, g |-> g, asked |-> FALSE, why |-> "noflow"]
    ELSE IF ~isValid(links)
         THEN [ret |-> FALSE, g |-> g, asked |-> FALSE, why |-> "invalid"]
    ELSE LET ask == ToOverwrite(k, g, child, links) # {}
             r == ApplyLoop(1, k, g, child, links)
         IN IF r.ok /\ ask /\ ~yes
            THEN [ret |-> FALSE, g |-> r.g, asked |-> TRUE, why |-> "declined"]
            ELSE [ret |-> r.ok, g |-> r.g, asked |-> ask,
                  why |-> IF r.ok THEN "ok" ELSE "conflict"]

\* EditParentsDialog._applyChanges with the user's answer to the overwrite
\* question (TRUE = Yes): [ret, g, asked, why]
applyChanges(hasfc, k, g, child, links, yes) ==
    IF ~hasfc THEN [ret |-> FALSE, g |-> g, asked |-> FALSE, why |-> "noflow"]
    ELSE IF ~isValid(links)
         THEN [ret |-> FALSE, g |-> g, asked |-> FALSE, why |-> "invalid"]
    ELSE LET ask == ToOverwrite(k, g, child, links) # {}
         IN IF ask /\ ~yes
            THEN [ret |-> FALSE, g |-> g, asked |-> TRUE, why |-> "declined"]
            ELSE LET r == ApplyLoop(1, k, g, child, links)
                 IN [ret |-> r.ok, g |-> r.g, asked |-> ask,
                     why |-> IF r.ok THEN "ok" ELSE "conflict"]

\* accept() emitting flowDataChanged whatever _applyChanges returns
acceptAlwaysEmit(hasfc, k, g, child, links, yes, n) ==
    LET r == applyChanges(hasfc, k, g, child, links, yes)
    IN [r |-> r,
        emitted |-> n + 1,
        dlg |-> IF r.ret THEN "accepted" ELSE "open"]

\* EditParentsDialog.accept: the graph, the emissions and the dialog state
\* after accept(), with the result of _applyChanges
accept(hasfc, k, g, child, links, yes, n) ==
    LET r == applyChanges(hasfc, k, g, child, links, yes)
    IN [r |-> r,
        emitted |-> IF r.ret THEN n + 1 ELSE n,
        dlg |-> IF r.ret THEN "accepted" ELSE "open"]

NoLink == ParentLink(NoEvent, NoDetail, NoDetail)

\* addParent that takes any payload it does not recognise as sequential
addParentAnyKind(k, child, links, selected, value, ok) ==
    IF selected = NoEvent
    THEN [l |-> links, why |-> "cancelled", link |-> NoLink, ret |-> FALSE]
    ELSE IF selected = child
    THEN [l |-> links, why |-> "self", link |-> NoLink, ret |-> FALSE]
    ELSE LET try(link) == LET r == appendLink(links, link)
                          IN [l |-> r.l, why |-> "append", link |-> link, ret |-> r.ret]
         IN IF k[selected] = "ForkEvent"
                 THEN try(ParentLink(selected, ForkBranch, NoDetail))
            ELSE IF k[selected] = "SwitchEvent"
                 THEN IF ~ok
                      THEN [l |-> links, why |-> "novalue", link |-> NoLink, ret |-> FALSE]
                      ELSE try(ParentLink(selected, SwitchCase, value))
            ELSE try(ParentLink(selected, LinkNext, NoDetail))

\* EditParentsDialog.addParent.  selected = NoEvent: the event chooser was
\* cancelled; value, ok: the result of QInputDialog.getInt.
\* [l, why, link, ret]: the new list, the branch taken, the link handed to
\* appendLink (NoLink if none) and appendLink's result
addParent(k, child, links, selected, value, ok) ==
    IF selected = NoEvent
    THEN [l |-> links, why |-> "cancelled", link |-> NoLink, ret |-> FALSE]
    ELSE IF selected = child
    THEN [l |-> links, why |-> "self", link |-> NoLink, ret |-> FALSE]
    ELSE LET try(link) == LET r == appendLink(links, link)
                          IN [l |-> r.l, why |-> "append", link |-> link, ret |-> r.ret]
         IN IF IsSeq(k[selected]) THEN try(ParentLink(selected, LinkNext, NoDetail))
            ELSE IF k[selected] = "ForkEvent"
                 THEN try(ParentLink(selected, ForkBranch, NoDetail))
            ELSE IF k[selected] = "SwitchEvent"
                 THEN IF ~ok
                      THEN [l |-> links, why |-> "novalue", link |-> NoLink, ret |-> FALSE]
                      ELSE try(ParentLink(selected, SwitchCase, value))
            ELSE [l |-> links, why |-> "unsupported", link |-> NoLink, ret |-> FALSE]

(* ------------------- TimelineEditor (timeline_editor.py) -------------- *)
\* A clip object: id is its identity; name, start_time, duration and type
\* are its attributes; ns tells a types.SimpleNamespace made by AddClipDialog
\* (compared by its attributes) from a clip read from the file (compared by
\* identity).
Clip(id, name, start_time, duration, type, ns) ==
    [id |-> id, name |-> name, start_time |-> start_time, duration |-> duration,
     type |-> type, ns |-> ns]
NoClip == Clip(0, "", 0, 0, "", FALSE)
\* the content of a form (of AddClipDialog or of the properties panel)
Form(name, start_time, duration, type) ==
    [name |-> name, start_time |-> start_time, duration |-> duration, type |-> type]
\* what the user enters into a form: two entries of the same name that differ
\* in start time, duration and type
ClipForms == {Form("a", 0, 1, "action"), Form("a", 5, 2, "camera")}
\* the form of a new AddClipDialog, no name entered
EmptyForm == Form("", 0, 1, "action")
\* a == b of two clip objects: the same object, or two SimpleNamespace with
\* equal attributes (actor_identifier and parameters never differ)
ClipEq(a, b) ==
    \/ a.id = b.id
    \/ /\ a.ns /\ b.ns
       /\ a.name = b.name /\ a.start_time = b.start_time
       /\ a.duration = b.duration /\ a.type = b.type

\* getattr(self.timeline, 'clips', [])
ClipsOf(tl, cl) == IF tl = 0 THEN <<>> ELSE cl

\* the identity of a newly created clip object: one that no live clip has
NewClipId(cl, sel, cur) ==
    LET used == {sel.id, cur.id} \cup {cl[i].id : i \in 1..Len(cl)}
    IN CHOOSE m \in 1..(Cardinality(used) + 1) : m \notin used /\ \A x \in 1..(m - 1) : x \in used

RECURSIVE FileClips(_, _, _)
\* the clips read from a file holding n clips: new objects
FileClips(sel, cur, n) ==
    IF n = 0 THEN <<>>
    ELSE LET cs == FileClips(sel, cur, n - 1)
         IN Append(cs, Clip(NewClipId(cs, sel, cur), "clip", 0, 1, "action", FALSE))

\* TimelineEditor.on_clip_selected with TimelinePropertiesPanel.load_clip:
\* [selected_clip, current_clip, panel_enabled]
on_clip_selected(tl, cl, sel, cur, enabled, clip_id) ==
    LET cs == ClipsOf(tl, cl)
    IN IF 0 <= clip_id /\ clip_id < Len(cs)
       THEN [selected_clip |-> cs[clip_id + 1], current_clip |-> cs[clip_id + 1],
             panel_enabled |-> TRUE]
       ELSE [selected_clip |-> sel, current_clip |-> cur, panel_enabled |-> enabled]

\* TimelineEditor.add_clip with AddClipDialog: name = "" is a dialog that was
\* cancelled (accept() refuses an empty name).  [clips, modified]
add_clip(tl, cl, sel, cur, name, start_time, duration, type) ==
    IF name = "" THEN [clips |-> cl, modified |-> FALSE]
    ELSE [clips |-> IF tl = 0 THEN cl
                    ELSE Append(cl, Clip(NewClipId(cl, sel, cur), name, start_time,
                                         duration, type, TRUE)),
          modified |-> TRUE]

\* list.remove(x) on a list that holds an element equal to x: the list
\* without its first element equal to x
ListRemove(cs, x) ==
    LET i == CHOOSE j \in 1..Len(cs) :
                 ClipEq(cs[j], x) /\ \A h \in 1..(j - 1) : ~ClipEq(cs[h], x)
    IN [j \in 1..(Len(cs) - 1) |-> IF j < i THEN cs[j] ELSE cs[j + 1]]

\* TimelineEditor.delete_selected_clip; yes: the answer to "Delete clip?".
\* [clips, selected_clip, modified, asked]
delete_selected_clip(tl, cl, sel, yes) ==
    IF sel = NoClip
    THEN [clips |-> cl, selected_clip |-> sel, modified |-> FALSE, asked |-> FALSE]
    ELSE LET cs == ClipsOf(tl, cl)
         IN IF yes /\ \E i \in 1..Len(cs) : ClipEq(cs[i], sel)
            THEN [clips |-> ListRemove(cs, sel),
                  selected_clip |-> NoClip, modified |-> TRUE, asked |-> TRUE]
            ELSE [clips |-> cl, selected_clip |-> sel, modified |-> FALSE,
                  asked |-> TRUE]

\* clip c after the object new.id was given the attributes of new
Written(c, new) == IF c.id = new.id THEN new ELSE c

\* TimelinePropertiesPanel.save_changes with TimelineEditor.on_clip_modified;
\* form: the content of the form.  The attributes are written into the
\* object current_clip, wherever it is referenced.
\* [clips, selected_clip, current_clip, modified]
save_changes(cl, sel, cur, form) ==
    IF cur = NoClip
    THEN [clips |-> cl, selected_clip |-> sel, current_clip |-> cur, modified |-> FALSE]
    ELSE LET new == Clip(cur.id, form.name, form.start_time, form.duration,
                         form.type, cur.ns)
         IN [clips |-> [i \in 1..Len(cl) |-> Written(cl[i], new)],
             selected_clip |-> Written(sel, new),
             current_clip |-> new,
             modified |-> TRUE]

\* TimelinePropertiesPanel.cancel_changes: load_clip(self.current_clip); the
\* new isEnabled()
cancel_changes(cur) == cur # NoClip

(* ------------------- TimelineEditorWindow (timeline.py) --------------- *)
\* None as a file name; a cancelled file dialog returns the empty name
NoFile == ""
\* the files the dialogs can return; the second has " *" in its name
Files == {"a.bfevfl", "b *.bfevfl"}
\* file.replace(" *", "")
StripMark(file) == IF file = "b *.bfevfl" THEN "b.bfevfl" ELSE file

\* The window title "EventEditor - Timeline Mode - {file}" followed by
\* marks copies of " *"
Title(file, marks) == [file |-> file, marks |-> marks]
\* "*" in self.windowTitle()
HasStar(t) == t.marks > 0 \/ t.file = "b *.bfevfl"
\* TimelineEditorWindow.on_timeline_modified: the new title
on_timeline_modified(t) == IF HasStar(t) THEN t ELSE Title(t.file, t.marks + 1)
\* self.windowTitle().replace(" *", "")
Unmarked(t) == Title(StripMark(t.file), 0)

\* the try block of save_file; wok: open() and write() raise nothing.
\* [current_file, title, wrote]
writeFlow(cf, flow, t, wok) ==
    IF wok /\ flow # 0
    THEN [current_file |-> cf, title |-> Unmarked(t), wrote |-> TRUE]
    ELSE [current_file |-> cf, title |-> t, wrote |-> FALSE]

\* TimelineEditorWindow.save_file_as; fn: the name from getSaveFileName
save_file_as(cf, flow, t, fn, wok) ==
    IF flow = 0 \/ fn = NoFile
    THEN [current_file |-> cf, title |-> t, wrote |-> FALSE]
    ELSE writeFlow(fn, flow, t, wok)

\* TimelineEditorWindow.save_file
save_file(cf, flow, t, fn, wok) ==
    IF cf = NoFile THEN save_file_as(cf, flow, t, fn, wok)
    ELSE writeFlow(cf, flow, t, wok)

\* TimelineEditorWindow.closeEvent; reply: the button of the "Unsaved
\* Changes" question.  [current_file, title, wrote, asked, accepted]
closeEvent(cf, flow, t, reply, fn, wok) ==
    LET keep(acc, ask) == [current_file |-> cf, title |-> t, wrote |-> FALSE,
                           asked |-> ask, accepted |-> acc]
    IN IF HasStar(t)
       THEN IF reply = "Save"
            THEN LET s == save_file(cf, flow, t, fn, wok)
                 IN [current_file |-> s.current_file, title |-> s.title,
                     wrote |-> s.wrote, asked |-> TRUE, accepted |-> TRUE]
            ELSE IF reply = "Discard" THEN keep(TRUE, TRUE)
            ELSE keep(FALSE, TRUE)
       ELSE keep(TRUE, FALSE)

NoTDid == [op |-> "init", arg |-> 0, reply |-> "", asked |-> FALSE, wrote |-> FALSE,
           accepted |-> FALSE, sel |-> 0, n |-> 0]
\* the record of a handler: its inputs and results
TDid(op, arg, reply, asked, wrote, accepted) ==
    [op |-> op, arg |-> arg, reply |-> reply, asked |-> asked, wrote |-> wrote,
     accepted |-> accepted, sel |-> 0, n |-> 0]
\* the record of a handler acting on the selection: also the identity of
\* the selected clip and the number of loaded clips as they were when it began
TDidSel(op, arg, reply, asked) ==
    [op |-> op, arg |-> arg, reply |-> reply, asked |-> asked, wrote |-> FALSE,
     accepted |-> FALSE, sel |-> selected_clip.id,
     n |-> Len(ClipsOf(timeline, clips))]

\* TimelineEditorWindow.__init__
WindowInit ==
    /\ current_file = NoFile
    /\ current_flow = 0
    /\ title = Title(NoFile, 0)
    /\ timeline_editor = FALSE
    /\ timeline = 0
    /\ selected_clip = NoClip
    /\ current_clip = NoClip
    /\ panel_enabled = FALSE
    /\ clips = <<>>
    /\ closed = FALSE
    /\ dirty = FALSE
    /\ tlast = NoTDid

(* --------------------------- initial states --------------------------- *)
\* every dict of at most Cardinality(Values) cases over the events of k
AllCases(k) ==
    {d \in UNION {[1..n -> Values \X DOMAIN k] : n \in 0..Cardinality(Values)} :
        \A i, j \in 1..Len(d) : d[i][1] = d[j][1] => i = j}
AllForks(k) == UNION {[1..n -> DOMAIN k] : n \in 0..MaxForks}

NxtOf(k) ==
    {[e \in DOMAIN k |-> IF IsSeq(k[e]) THEN f[e] ELSE NoEvent] :
        f \in [{e \in DOMAIN k : IsSeq(k[e])} -> DOMAIN k \cup {NoEvent}]}
CasesOf(k) ==
    {[e \in DOMAIN k |-> IF k[e] = "SwitchEvent" THEN f[e] ELSE <<>>] :
        f \in [{e \in DOMAIN k : k[e] = "SwitchEvent"} -> AllCases(k)]}
ForksOf(k) ==
    {[e \in DOMAIN k |-> IF k[e] = "ForkEvent" THEN f[e] ELSE <<>>] :
        f \in [{e \in DOMAIN k : k[e] = "ForkEvent"} -> AllForks(k)]}

G == Graph(nxt, cases, forks)
NoPre == [nxt |-> <<>>, cases |-> <<>>, forks |-> <<>>, l |-> <<>>]
Snapshot == [nxt |-> nxt, cases |-> cases, forks |-> forks, l |-> l]
\* sel, ok: the event chosen in addParent and whether getInt was confirmed
DidAdd(ret, why, link, sel, ok) ==
    [op |-> "addParent", ret |-> ret, why |-> why, asked |-> FALSE, yes |-> TRUE,
     link |-> link, sel |-> sel, ok |-> ok]
Did(op, ret, why, asked, yes, link) ==
    [op |-> op, ret |-> ret, why |-> why, asked |-> asked, yes |-> yes, link |-> link,
     sel |-> NoEvent, ok |-> FALSE]

\* EditParentsDialog.__init__ on a flow with a flowchart, or on flow data
\* without one (no events; the child is an event outside any flowchart)
InitGraph(layouts) ==
    \/ /\ has_flowchart = TRUE
       /\ kind \in layouts
       /\ nxt \in NxtOf(kind)
       /\ cases \in CasesOf(kind)
       /\ forks \in ForksOf(kind)
       /\ child_event \in DOMAIN kind
    \/ /\ has_flowchart = FALSE
       /\ kind = <<>>
       /\ nxt = <<>> /\ cases = <<>> /\ forks = <<>>
       /\ child_event = 1

Init ==
    /\ InitGraph(Layouts)
    /\ l = gatherExistingLinks(has_flowchart, kind, G, child_event)
    /\ dlg = "open"
    /\ emitted = 0
    /\ last = Did("init", TRUE, "", FALSE, TRUE, NoLink)
    /\ pre = NoPre
    /\ seeded = l
    /\ WindowInit

(* ------------------------------ actions ------------------------------- *)
\* what QInputDialog.getInt can return as <<value, ok>>; it is shown only
\* for a selected switch event that is not the child
GetIntResults(k, child, selected) ==
    IF selected # NoEvent /\ selected # child /\ k[selected] = "SwitchEvent"
    THEN (Values \X {TRUE}) \cup {<<0, FALSE>>}
    ELSE {<<0, FALSE>>}

\* the answers the user can give to the overwrite question (TRUE = Yes);
\* when _applyChanges does not ask, there is no answer to choose
Answers(hasfc, k, g, child, links) ==
    IF hasfc /\ isValid(links) /\ ToOverwrite(k, g, child, links) # {}
    THEN BOOLEAN ELSE {TRUE}

\* the "Add parent..." button
AddParent ==
    /\ dlg = "open"
    /\ Len(l) < MaxLinks
    /\ \E selected \in Events \cup {NoEvent} :
       \E in \in GetIntResults(kind, child_event, selected) :
         LET r == addParent(kind, child_event, l, selected, in[1], in[2])
         IN /\ l' = r.l
            /\ last' = DidAdd(r.ret, r.why, r.link, selected, in[2])
    /\ pre' = Snapshot
    /\ UNCHANGED <<has_flowchart, kind, nxt, cases, forks, child_event, dlg, emitted,
                   seeded, tvars>>

\* the context menu's "Remove" on a selected row
RemoveRow ==
    /\ dlg = "open"
    /\ \E row \in 1..Len(l) : l' = removeRow(l, row)
    /\ last' = Did("removeRow", TRUE, "", FALSE, TRUE, NoLink)
    /\ pre' = NoPre
    /\ UNCHANGED <<has_flowchart, kind, nxt, cases, forks, child_event, dlg, emitted,
                   seeded, tvars>>

\* the Save button
Accept ==
    /\ dlg = "open"
    /\ \E yes \in Answers(has_flowchart, kind, G, child_event, l) :
         LET a == accept(has_flowchart, kind, G, child_event, l, yes, emitted)
         IN /\ nxt' = a.r.g.nxt
            /\ cases' = a.r.g.cases
            /\ forks' = a.r.g.forks
            /\ emitted' = a.emitted
            /\ dlg' = a.dlg
            /\ last' = Did("accept", a.r.ret, a.r.why, a.r.asked, yes, NoLink)
    /\ pre' = Snapshot
    /\ UNCHANGED <<has_flowchart, kind, child_event, l, seeded, tvars>>

\* the Cancel button
Reject ==
    /\ dlg = "open"
    /\ dlg' = "rejected"
    /\ last' = Did("reject", TRUE, "", FALSE, TRUE, NoLink)
    /\ pre' = NoPre
    /\ UNCHANGED <<has_flowchart, kind, nxt, cases, forks, child_event, l, emitted,
                   seeded, tvars>>

\* a new dialog is constructed on the same flow data for some event
Reopen ==
    /\ dlg \in {"accepted", "rejected"}
    /\ \E c \in (IF has_flowchart THEN Events ELSE {child_event}) :
         /\ child_event' = c
         /\ l' = gatherExistingLinks(has_flowchart, kind, G, c)
         /\ seeded' = gatherExistingLinks(has_flowchart, kind, G, c)
    /\ dlg' = "open"
    /\ emitted' = 0
    /\ last' = Did("init", TRUE, "", FALSE, TRUE, NoLink)
    /\ pre' = NoPre
    /\ UNCHANGED <<has_flowchart, kind, nxt, cases, forks, tvars>>

Next == AddParent \/ RemoveRow \/ Accept \/ Reject \/ Reopen

Spec == Init /\ [][Next]_vars

(* ---- ParentLinkModel constructed on an arbitrary list of links ------- *)
\* every ParentLink over the events 1..n: any parent with any link type,
\* compatible with the parent's payload or not
AnyLinks(n) ==
    {ParentLink(p, t, NoDetail) : p \in 1..n, t \in {LinkNext, ForkBranch}}
    \cup {ParentLink(p, SwitchCase, v) : p \in 1..n, v \in Values}
AnyLists(n) == UNION {[1..m -> AnyLinks(n)] : m \in 0..MaxDesired}

\* ParentLinkModel.__init__(links) takes any list; the dialog is then saved
InitAny ==
    /\ InitGraph(AnyLayouts)
    /\ l \in AnyLists(2)
    /\ dlg = "open"
    /\ emitted = 0
    /\ last = Did("init", TRUE, "", FALSE, TRUE, NoLink)
    /\ pre = NoPre
    /\ seeded = l
    /\ WindowInit

SpecAny == InitAny /\ [][Accept]_vars

(* ---- ParentLinkModel constructed on a list with a duplicate case ----- *)
\* two SwitchCase links of the list have the same parent and discriminant
HasDupSwitch(links) ==
    \E i, j \in 1..Len(links) :
        /\ i # j
        /\ links[i].link_type = SwitchCase /\ links[j].link_type = SwitchCase
        /\ links[i].parent = links[j].parent /\ links[i].detail = links[j].detail

\* every list of at most MaxDupDesired links over the events 1..n in which
\* two SwitchCase links have the same parent and discriminant; the third
\* link is any link, a Next link whose parent's next must be overwritten
\* included
DupLists(n) ==
    {ls \in UNION {[1..m -> AnyLinks(n)] : m \in 2..MaxDupDesired} : HasDupSwitch(ls)}

\* ParentLinkModel.__init__(links) on such a list; the dialog is then saved
InitDup ==
    /\ InitGraph(AnyLayouts)
    /\ l \in DupLists(2)
    /\ dlg = "open"
    /\ emitted = 0
    /\ last = Did("init", TRUE, "", FALSE, TRUE, NoLink)
    /\ pre = NoPre
    /\ seeded = l
    /\ WindowInit

SpecDup == InitDup /\ [][Accept]_vars

(* ---- one fork event reconciled against a list of ForkBranch links ---- *)
\* event 1 is the fork; its branches target any of the three events
ForkLayout == <<"ForkEvent", "ActionEvent", "JoinEvent">>
\* the desired list: n ForkBranch links whose parent is the fork
ForkLists == {[i \in 1..n |-> ParentLink(1, ForkBranch, NoDetail)] : n \in 0..MaxForkDesired}

\* ParentLinkModel.__init__(links) on such a list; the dialog is then saved
InitFork ==
    /\ has_flowchart = TRUE
    /\ kind = ForkLayout
    /\ nxt = [e \in DOMAIN ForkLayout |-> NoEvent]
    /\ cases = [e \in DOMAIN ForkLayout |-> <<>>]
    /\ forks \in {[e \in DOMAIN ForkLayout |-> IF e = 1 THEN f ELSE <<>>] :
                    f \in UNION {[1..n -> DOMAIN ForkLayout] : n \in 0..MaxForkLen}}
    /\ child_event \in DOMAIN ForkLayout
    /\ l \in ForkLists
    /\ dlg = "open"
    /\ emitted = 0
    /\ last = Did("init", TRUE, "", FALSE, TRUE, NoLink)
    /\ pre = NoPre
    /\ seeded = l
    /\ WindowInit

SpecFork == InitFork /\ [][Accept]_vars

(* ----------------- the standalone timeline window --------------------- *)
\* no "Edit parents" dialog exists in the timeline program
NoDialog ==
    /\ has_flowchart = FALSE
    /\ kind = <<>>
    /\ nxt = <<>> /\ cases = <<>> /\ forks = <<>>
    /\ child_event = 1
    /\ l = <<>>
    /\ dlg = "none"
    /\ emitted = 0
    /\ last = Did("init", TRUE, "", FALSE, TRUE, NoLink)
    /\ pre = NoPre
    /\ seeded = <<>>

InitTimeline == NoDialog /\ WindowInit

\* what opening a file can do: "ok", a file without timeline data, or an
\* exception while reading
OpenResults == {"ok", "notimeline", "error"}

\* File > Open: open_file and, on success, load_timeline of the window and
\* of the editor.  A new flow object with a new timeline object and new clip
\* objects is read and replaces the one opened before.
OpenFile ==
    /\ ~closed
    /\ \E filename \in Files \cup {NoFile}, res \in OpenResults, n \in 0..MaxClips :
         IF filename # NoFile /\ res = "ok"
         THEN /\ current_file' = filename
              /\ current_flow' = 1
              /\ timeline_editor' = TRUE
              /\ timeline' = 1
              /\ clips' = FileClips(selected_clip, current_clip, n)
              /\ title' = Title(filename, 0)
              /\ dirty' = FALSE
              /\ tlast' = TDid("load_timeline", 0, "", FALSE, FALSE, FALSE)
         ELSE /\ n = 0
              /\ tlast' = TDid("open_file", 0, "", FALSE, FALSE, FALSE)
              /\ UNCHANGED <<current_file, current_flow, timeline_editor, timeline,
                             clips, title, dirty>>
    /\ UNCHANGED <<selected_clip, current_clip, panel_enabled, closed, dvars>>

\* a clip is clicked in the timeline view
OnClipSelected ==
    /\ ~closed /\ timeline_editor
    /\ \E clip_id \in (0 - 1)..MaxClips :
         LET r == on_clip_selected(timeline, clips, selected_clip, current_clip,
                                   panel_enabled, clip_id)
         IN /\ selected_clip' = r.selected_clip
            /\ current_clip' = r.current_clip
            /\ panel_enabled' = r.panel_enabled
            /\ tlast' = TDidSel("on_clip_selected", clip_id, "", FALSE)
    /\ UNCHANGED <<current_file, current_flow, title, timeline_editor, timeline,
                   clips, closed, dirty, dvars>>

\* the toolbar's "Add Clip"
AddClip ==
    /\ ~closed /\ timeline_editor
    /\ Len(ClipsOf(timeline, clips)) < MaxClips
    /\ \E form \in ClipForms \cup {EmptyForm} :
         LET r == add_clip(timeline, clips, selected_clip, current_clip, form.name,
                           form.start_time, form.duration, form.type)
         IN /\ clips' = r.clips
            /\ title' = IF r.modified THEN on_timeline_modified(title) ELSE title
            /\ dirty' = (dirty \/ r.clips # clips)
            /\ tlast' = TDid("add_clip", 0, "", FALSE, FALSE, FALSE)
    /\ UNCHANGED <<current_file, current_flow, timeline_editor, timeline,
                   selected_clip, current_clip, panel_enabled, closed, dvars>>

\* the toolbar's "Delete"
DeleteSelectedClip ==
    /\ ~closed /\ timeline_editor
    /\ \E yes \in (IF selected_clip = NoClip THEN {FALSE} ELSE BOOLEAN) :
         LET r == delete_selected_clip(timeline, clips, selected_clip, yes)
         IN /\ clips' = r.clips
            /\ selected_clip' = r.selected_clip
            /\ panel_enabled' = (panel_enabled /\ ~r.modified)
            /\ title' = IF r.modified THEN on_timeline_modified(title) ELSE title
            /\ dirty' = (dirty \/ r.modified)
            /\ tlast' = TDidSel("delete_selected_clip", 0, IF yes THEN "Yes" ELSE "No",
                                r.asked)
    /\ UNCHANGED <<current_file, current_flow, timeline_editor, timeline, current_clip,
                   closed, dvars>>

\* what the form of the enabled properties panel can hold when "Save
\* Changes" is pressed: the attributes load_clip put there, or what the user
\* entered
Forms(cur) ==
    ClipForms \cup {Form(cur.name, cur.start_time, cur.duration, cur.type)}

\* the properties panel's "Save Changes"; the button is a child of the panel
\* (setup_ui), which setEnabled(False) disables with its children, so it can
\* be pressed only while the panel is enabled
SaveChanges ==
    /\ ~closed /\ timeline_editor /\ panel_enabled
    /\ \E form \in Forms(current_clip) :
         LET r == save_changes(clips, selected_clip, current_clip, form)
         IN /\ clips' = r.clips
            /\ selected_clip' = r.selected_clip
            /\ current_clip' = r.current_clip
            /\ title' = IF r.modified THEN on_timeline_modified(title) ELSE title
            /\ dirty' = (dirty \/ r.clips # clips)
            /\ tlast' = TDid("save_changes", 0, "", FALSE, FALSE, FALSE)
    /\ UNCHANGED <<current_file, current_flow, timeline_editor, timeline, panel_enabled,
                   closed, dvars>>

\* the properties panel's "Cancel"; the button is a child of the panel and
\* can be pressed only while the panel is enabled
CancelChanges ==
    /\ ~closed /\ timeline_editor /\ panel_enabled
    /\ panel_enabled' = cancel_changes(current_clip)
    /\ tlast' = TDid("cancel_changes", 0, "", FALSE, FALSE, FALSE)
    /\ UNCHANGED <<current_file, current_flow, title, timeline_editor, timeline,
                   selected_clip, current_clip, clips, closed, dirty, dvars>>

\* File > Save
SaveFile ==
    /\ ~closed
    /\ \E fn \in (IF current_file = NoFile /\ current_flow # 0 THEN Files \cup {NoFile}
                    ELSE {NoFile}),
          wok \in (IF current_flow # 0 THEN BOOLEAN ELSE {FALSE}) :
         LET s == save_file(current_file, current_flow, title, fn, wok)
         IN /\ current_file' = s.current_file
            /\ title' = s.title
            /\ dirty' = (dirty /\ ~s.wrote)
            /\ tlast' = TDid("save_file", 0, "", FALSE, s.wrote, FALSE)
    /\ UNCHANGED <<current_flow, timeline_editor, timeline, selected_clip, current_clip,
                   panel_enabled, clips, closed, dvars>>

\* File > Save As...
SaveFileAs ==
    /\ ~closed
    /\ \E fn \in (IF current_flow # 0 THEN Files \cup {NoFile} ELSE {NoFile}),
          wok \in (IF current_flow # 0 THEN BOOLEAN ELSE {FALSE}) :
         LET s == save_file_as(current_file, current_flow, title, fn, wok)
         IN /\ current_file' = s.current_file
            /\ title' = s.title
            /\ dirty' = (dirty /\ ~s.wrote)
            /\ tlast' = TDid("save_file_as", 0, "", FALSE, s.wrote, FALSE)
    /\ UNCHANGED <<current_flow, timeline_editor, timeline, selected_clip, current_clip,
                   panel_enabled, clips, closed, dvars>>

\* the buttons of the "Unsaved Changes" question
CloseReplies == {"Save", "Discard", "Cancel"}

\* the window is asked to close (File > Exit or the window's close button)
CloseEvent ==
    /\ ~closed
    /\ \E reply \in (IF HasStar(title) THEN CloseReplies ELSE {""}),
          wok \in (IF HasStar(title) /\ current_flow # 0 THEN BOOLEAN ELSE {FALSE}) :
         LET c == closeEvent(current_file, current_flow, title, reply, NoFile, wok)
         IN /\ current_file' = c.current_file
            /\ title' = c.title
            /\ closed' = c.accepted
            /\ dirty' = (dirty /\ ~c.wrote)
            /\ tlast' = TDid("closeEvent", 0, reply, c.asked, c.wrote, c.accepted)
    /\ UNCHANGED <<current_flow, timeline_editor, timeline, selected_clip, current_clip,
                   panel_enabled, clips, dvars>>

NextTimeline ==
    OpenFile \/ OnClipSelected \/ AddClip \/ DeleteSelectedClip
    \/ SaveChanges \/ CancelChanges \/ SaveFile \/ SaveFileAs \/ CloseEvent

SpecTimeline == InitTimeline /\ [][NextTimeline]_vars

(* ======================= properties of the dialog ===================== *)
\* the graph as it was when the last handler began
PreG == Graph(pre.nxt, pre.cases, pre.forks)
\* the last handler was accept(), i.e. _applyChanges ran on PreG and pre.l
Accepted == last.op = "accept"

\* equality of two graphs as Python compares them: nxt targets, cases as
\* dicts (insertion order is not compared), forks as lists
SameGraph(g1, g2) ==
    /\ g1.nxt = g2.nxt
    /\ g1.forks = g2.forks
    /\ DOMAIN g1.cases = DOMAIN g2.cases
    /\ \A e \in DOMAIN g1.cases : Items(g1.cases[e]) = Items(g2.cases[e])

NoSelfParent(links, child) == \A i \in 1..Len(links) : links[i].parent # child

\* the link's type fits the payload of its parent, an event of the flowchart
Compatible(k, links) ==
    \A i \in 1..Len(links) :
        /\ links[i].parent \in DOMAIN k
        /\ \/ links[i].link_type = LinkNext /\ IsSeq(k[links[i].parent])
           \/ links[i].link_type = SwitchCase /\ k[links[i].parent] = "SwitchEvent"
           \/ links[i].link_type = ForkBranch /\ k[links[i].parent] = "ForkEvent"

\* some desired switch case (P, v) has v bound in P to an event other than child
Conflict(k, g, child, links) ==
    \E i \in 1..Len(links) :
        /\ links[i].link_type = SwitchCase
        /\ links[i].parent \in DOMAIN k
        /\ k[links[i].parent] = "SwitchEvent"
        /\ \E j \in 1..Len(g.cases[links[i].parent]) :
              /\ g.cases[links[i].parent][j][1] = links[i].detail
              /\ g.cases[links[i].parent][j][2] # child

CountOf(links, p, t) ==
    Cardinality({i \in 1..Len(links) : links[i].parent = p /\ links[i].link_type = t})

\* the links into child found by scanning g are exactly the desired ones:
\* same Next parents, same (parent, discriminant) cases, same number of
\* fork branches per parent
ParentsMatch(k, g, child, links) ==
    LET found == gatherExistingLinks(TRUE, k, g, child)
        NextOf(ls) == {ls[i].parent : i \in {j \in 1..Len(ls) : ls[j].link_type = LinkNext}}
        CasesIn(ls) == {<<ls[i].parent, ls[i].detail>> :
                           i \in {j \in 1..Len(ls) : ls[j].link_type = SwitchCase}}
        Parents(ls) == {ls[i].parent : i \in 1..Len(ls)}
    IN /\ NextOf(found) = NextOf(links)
       /\ CasesIn(found) = CasesIn(links)
       /\ \A p \in Parents(found) \cup Parents(links) :
              CountOf(found, p, ForkBranch) = CountOf(links, p, ForkBranch)

\* the inputs C1 is about: a flowchart, a desired list whose links fit their
\* parents' payloads, without duplicate switch cases and without a self-parent
\* link, and an apply the user does not abort at the overwrite question
C1_Inputs ==
    /\ Accepted
    /\ has_flowchart
    /\ Compatible(kind, pre.l)
    /\ ~HasDupSwitch(pre.l) /\ NoSelfParent(pre.l, child_event)
    /\ (ToOverwrite(kind, PreG, child_event, pre.l) = {} \/ last.yes)

\* C1 (as stated): for every graph and every desired list without duplicate
\* switch cases and without a self-parent link, _applyChanges returns True and
\* the parent links of the child recomputed from the graph are the desired ones.
C1_AsStated ==
    C1_Inputs => (last.ret /\ ParentsMatch(kind, G, child_event, pre.l))

\* C1 (amended): the same, provided no desired switch case (P, v) has v bound
\* in P to an event other than the child.
C1_ApplyReachesDesired ==
    (C1_Inputs /\ ~Conflict(kind, PreG, child_event, pre.l))
        => (last.ret /\ ParentsMatch(kind, G, child_event, pre.l))

C1_Witness ==
    /\ C1_Inputs /\ last.ret
    /\ Len(pre.l) >= 2
    /\ \E i \in 1..Len(pre.l) : pre.l[i].link_type = SwitchCase
    /\ ~SameGraph(G, PreG)
    /\ gatherExistingLinks(TRUE, kind, PreG, child_event) # <<>>

\* C2 (as stated): when a desired switch case (P, v) is bound in P to another
\* event, _applyChanges fails with the conflict error and the whole graph is as
\* it was before the apply.
C2_ConflictLeavesGraph ==
    (/\ Accepted /\ has_flowchart /\ ~HasDupSwitch(pre.l)
     /\ (ToOverwrite(kind, PreG, child_event, pre.l) = {} \/ last.yes)
     /\ Conflict(kind, PreG, child_event, pre.l))
        => (~last.ret /\ last.why = "conflict" /\ SameGraph(G, PreG))

\* C3: when a sequential parent of a desired Next link has a next that is set
\* and is not the child, and the user declines the overwrite, _applyChanges
\* returns False, no field of any event changes and the dialog stays open.
C3_DeclineChangesNothing ==
    (/\ Accepted /\ has_flowchart /\ ~HasDupSwitch(pre.l)
     /\ ToOverwrite(kind, PreG, child_event, pre.l) # {}
     /\ ~last.yes)
        => (/\ ~last.ret
            /\ G = PreG
            /\ l = pre.l
            /\ dlg = "open"
            /\ emitted = 0)

C3_Witness ==
    /\ Accepted /\ ~last.yes /\ ~last.ret /\ dlg = "open"
    /\ \E p \in ToOverwrite(kind, PreG, child_event, pre.l) : nxt[p] = pre.nxt[p]
    /\ ApplyLoop(1, kind, PreG, child_event, pre.l).g # PreG

RECURSIVE OtherTargets(_, _, _)
\* the entries of a fork sequence that do not target child, in order
OtherTargets(f, i, child) ==
    IF i > Len(f) THEN <<>>
    ELSE (IF f[i] # child THEN <<f[i]>> ELSE <<>>) \o OtherTargets(f, i + 1, child)

\* every switch case and every fork branch of PreG that does not target the
\* child is still there, fork branches in the same relative order
OtherCasesAndForksKept ==
    \A e \in Events :
        /\ \A c \in Items(pre.cases[e]) : c[2] # child_event => c \in Items(cases[e])
        /\ OtherTargets(forks[e], 1, child_event)
               = OtherTargets(pre.forks[e], 1, child_event)

\* C4 (as stated): a successful apply keeps every next pointer, switch case and
\* fork branch that pointed at an event other than the child.
C4_AsStated ==
    (Accepted /\ last.ret)
        => (/\ \A e \in Events :
                   (pre.nxt[e] # NoEvent /\ pre.nxt[e] # child_event)
                       => nxt[e] = pre.nxt[e]
            /\ OtherCasesAndForksKept)

\* C4 (amended): a successful apply keeps every switch case and fork branch that
\* pointed at an event other than the child, and every such next pointer except
\* those of the sequential parents of desired Next links, which now point at
\* the child.
C4_OtherEdgesKept ==
    (Accepted /\ last.ret)
        => (/\ \A e \in Events :
                   (pre.nxt[e] # NoEvent /\ pre.nxt[e] # child_event)
                       => nxt[e] = (IF e \in DesiredNext(pre.l) THEN child_event
                                    ELSE pre.nxt[e])
            /\ OtherCasesAndForksKept)

C4_Witness ==
    /\ Accepted /\ last.ret
    /\ \E e \in Events :
          /\ forks[e] # pre.forks[e]
          /\ OtherTargets(pre.forks[e], 1, child_event) # <<>>
    /\ \E e \in Events :
          pre.nxt[e] # NoEvent /\ pre.nxt[e] # child_event /\ nxt[e] = child_event

\* the event has a link to the child in g
LinksTo(k, g, e, child) == EventLinks(e, k, g, child) # <<>>

\* C5: an event that is the parent of no desired link and has no link to the
\* child before the apply has the same next, cases and forks after it.
C5_UnrelatedEventsUntouched ==
    Accepted =>
        \A e \in Events :
            (/\ \A i \in 1..Len(pre.l) : pre.l[i].parent # e
             /\ ~LinksTo(kind, PreG, e, child_event))
                => (/\ nxt[e] = pre.nxt[e]
                    /\ cases[e] = pre.cases[e]
                    /\ forks[e] = pre.forks[e])

C5_Witness ==
    /\ Accepted /\ ~SameGraph(G, PreG)
    /\ \E e \in Events :
          /\ \A i \in 1..Len(pre.l) : pre.l[i].parent # e
          /\ ~LinksTo(kind, PreG, e, child_event)
          /\ (pre.nxt[e] # NoEvent \/ pre.cases[e] # <<>> \/ pre.forks[e] # <<>>)
          /\ nxt[e] = pre.nxt[e] /\ cases[e] = pre.cases[e] /\ forks[e] = pre.forks[e]

\* C6: with two SwitchCase links of the same parent and discriminant in the
\* list, _applyChanges returns False without asking the overwrite question
\* (also when the list holds a Next link whose parent's next would have to be
\* overwritten) and without changing the graph.
C6_DuplicateCasesRejected ==
    (Accepted /\ HasDupSwitch(pre.l))
        => (/\ ~last.ret
            /\ ~last.asked
            /\ has_flowchart => last.why = "invalid"
            /\ G = PreG
            /\ dlg = "open")

\* a rejected list with a duplicate case for which the question would have
\* been asked and the loop would have changed the graph
C6_Witness ==
    /\ Accepted /\ HasDupSwitch(pre.l) /\ has_flowchart
    /\ ~last.ret /\ last.why = "invalid"
    /\ ToOverwrite(kind, PreG, child_event, pre.l) # {}
    /\ ApplyLoop(1, kind, PreG, child_event, pre.l).g # PreG

\* C7: applying the list recomputed from the graph succeeds without a
\* confirmation and changes nothing: in the state a successful apply leaves,
\* and in every accept() of a dialog whose list is the one scanned from the graph.
C7_ReapplyChangesNothing ==
    /\ (dlg = "accepted") =>
          LET again == applyChanges(has_flowchart, kind, G, child_event,
                           gatherExistingLinks(has_flowchart, kind, G, child_event), FALSE)
          IN again.ret /\ ~again.asked /\ SameGraph(again.g, G)
    /\ (/\ Accepted /\ has_flowchart
        /\ pre.l = gatherExistingLinks(has_flowchart, kind, PreG, child_event))
          => (last.ret /\ ~last.asked /\ SameGraph(G, PreG))

C7_Witness ==
    /\ Accepted /\ last.ret /\ has_flowchart
    /\ Len(pre.l) >= 2
    /\ pre.l = gatherExistingLinks(has_flowchart, kind, PreG, child_event)
    /\ SameGraph(G, PreG)

\* C8: accept() emits flowDataChanged once and closes the dialog when
\* _applyChanges returns True; it emits nothing and leaves the dialog open when
\* _applyChanges returns False.
C8_AcceptEmitsOnSuccessOnly ==
    Accepted =>
        IF last.ret THEN emitted = 1 /\ dlg = "accepted"
                    ELSE emitted = 0 /\ dlg = "open"

C8_Witness ==
    /\ Accepted /\ last.ret /\ emitted = 1 /\ dlg = "accepted"
    /\ ~SameGraph(G, PreG)

\* C9: appendLink of a link equal to one in the list returns False and leaves
\* the list as it is; appendLink of any other link returns True and puts the
\* link at the end of the list.
C9_AppendLink ==
    (last.op = "addParent" /\ last.why = "append") =>
        IF \E i \in 1..Len(pre.l) : pre.l[i] = last.link
        THEN ~last.ret /\ l = pre.l
        ELSE last.ret /\ l = Append(pre.l, last.link)

C9_Witness ==
    /\ last.op = "addParent" /\ last.why = "append"
    /\ last.ret /\ Len(pre.l) >= 1
    /\ \E i \in 1..Len(pre.l) :
          /\ pre.l[i].parent = last.link.parent
          /\ pre.l[i].link_type = last.link.link_type
          /\ pre.l[i].detail # last.link.detail

\* C10 (as stated): in every state of the dialog no link of the desired list
\* has the child event as its parent.
C10_NoSelfParentLink ==
    dlg = "open" => NoSelfParent(l, child_event)

(* C11: addParent with a selected event whose payload is none of the
   sequential classes, SwitchEvent or ForkEvent is rejected: the desired list
   and the graph are as they were; and addParent with the child itself
   selected, or with the switch-value prompt cancelled, leaves the desired
   list as it was. *)
C11_RejectedAddParent ==
    (last.op = "addParent" /\ last.sel # NoEvent)
    => /\ (~IsSeq(kind[last.sel]) /\ kind[last.sel] \notin {"SwitchEvent", "ForkEvent"})
          => (l = pre.l /\ SameGraph(G, PreG) /\ ~last.ret)
       /\ last.sel = child_event => l = pre.l
       /\ (last.sel # child_event /\ kind[last.sel] = "SwitchEvent" /\ ~last.ok)
          => l = pre.l
\* an unsupported event was chosen while the list already held a link
C11_Witness ==
    /\ last.op = "addParent" /\ last.sel # NoEvent /\ last.sel # child_event
    /\ kind[last.sel] = "Other"
    /\ Len(pre.l) >= 1
    /\ last.why = "unsupported"

\* some sequential parent of a desired Next link has a next that is set and
\* is not the child
NeedsOverwrite(k, g, child, links) ==
    \E i \in 1..Len(links) :
        /\ links[i].link_type = LinkNext
        /\ links[i].parent \in DOMAIN k
        /\ IsSeq(k[links[i].parent])
        /\ g.nxt[links[i].parent] \notin {NoEvent, child}

(* C12: _applyChanges asks the overwrite confirmation exactly when a
   sequential parent of a desired Next link has a non-empty next that is not
   the child; it asks before any event is mutated (a No leaves the graph as
   it was); when there is no such parent it does not ask and goes on to the
   apply loop. *)
C12_ConfirmationAsked ==
    (Accepted /\ has_flowchart)
    => /\ last.asked <=> NeedsOverwrite(kind, PreG, child_event, pre.l)
       /\ (last.asked /\ ~last.yes) => (SameGraph(G, PreG) /\ ~last.ret)
       /\ ~last.asked => last.why \in {"ok", "conflict"}
\* the question was asked and answered Yes, and the apply rewired a parent
C12_Witness ==
    /\ Accepted /\ last.asked /\ last.yes /\ last.ret
    /\ NeedsOverwrite(kind, PreG, child_event, pre.l)
    /\ ~SameGraph(G, PreG)

\* the fork events of the flowchart
ForkEvents == {e \in Events : kind[e] = "ForkEvent"}
\* how many entries of f among its first n target child
ChildCount(f, n, child) == Cardinality({i \in 1..n : f[i] = child})
\* the elements of f at the positions P, in their order in f
Restrict(f, P) ==
    [n \in 1..Cardinality(P) |->
        f[CHOOSE i \in P : Cardinality({j \in P : j <= i}) = n]]

(* C13: for a fork parent holding more branches to the child than the
   desired count d, a successful apply leaves the original sequence without
   its child-targeting entries after the first d of them: every entry to
   another event and the first d entries to the child stay, in their
   original order. *)
C13_ForkExtrasRemoved ==
    (Accepted /\ last.ret)
    => \A e \in ForkEvents :
         LET f == pre.forks[e]
             d == CountOf(pre.l, e, ForkBranch)
         IN ChildCount(f, Len(f), child_event) > d
            => forks[e] = Restrict(f, {i \in 1..Len(f) :
                   f[i] # child_event \/ ChildCount(f, i, child_event) <= d})
\* a branch to another event stood between two branches to the child, one
\* of which was wanted
C13_Witness ==
    /\ Accepted /\ last.ret
    /\ \E e \in ForkEvents :
         LET f == pre.forks[e]
         IN /\ CountOf(pre.l, e, ForkBranch) = 1
            /\ \E i, j, h \in 1..Len(f) :
                 /\ i < j /\ j < h
                 /\ f[i] = child_event /\ f[j] # child_event /\ f[h] = child_event
            /\ Len(forks[e]) = 2

(* C14: for a fork parent holding c branches to the child with a desired
   count d > c, a successful apply keeps the sequence as a prefix and
   appends d - c branches to the child; with d = c the sequence stays. *)
C14_ForkMissingAppended ==
    (Accepted /\ last.ret)
    => \A e \in ForkEvents :
         LET f == pre.forks[e]
             c == ChildCount(f, Len(f), child_event)
             d == CountOf(pre.l, e, ForkBranch)
         IN d >= c
            => /\ Len(forks[e]) = Len(f) + (d - c)
               /\ \A i \in 1..Len(f) : forks[e][i] = f[i]
               /\ \A i \in (Len(f) + 1)..Len(forks[e]) : forks[e][i] = child_event
\* two branches were appended behind one to the child and one to another event
C14_Witness ==
    /\ Accepted /\ last.ret
    /\ \E e \in ForkEvents :
         LET f == pre.forks[e]
         IN /\ ChildCount(f, Len(f), child_event) = 1
            /\ \E i \in 1..Len(f) : f[i] # child_event
            /\ CountOf(pre.l, e, ForkBranch) = 3
            /\ Len(forks[e]) = Len(f) + 2

\* the switch events of the flowchart
SwitchEvents == {e \in Events : kind[e] = "SwitchEvent"}
\* the discriminants of the desired SwitchCase links of parent e
DesiredValues(links, e) ==
    {links[i].detail : i \in {j \in 1..Len(links) :
        links[j].link_type = SwitchCase /\ links[j].parent = e}}

(* C15: for a switch parent, a successful apply removes exactly the cases
   that map to the child under a discriminant that is not desired for that
   parent; a case that maps to the child under a desired discriminant stays;
   and no apply, successful or not, removes or retargets a case that maps to
   another event. *)
C15_SwitchCasesRemoved ==
    Accepted
    => \A e \in SwitchEvents : \A c \in Items(pre.cases[e]) :
         /\ c[2] # child_event => c \in Items(cases[e])
         /\ (last.ret /\ c[2] = child_event)
            => IF c[1] \in DesiredValues(pre.l, e)
               THEN c \in Items(cases[e])
               ELSE c[1] \notin Keys(cases[e])
\* of two cases that mapped to the child, the one no longer desired is
\* removed and the other stays
C15_Witness ==
    /\ Accepted /\ last.ret
    /\ \E e \in SwitchEvents :
         /\ Len(pre.cases[e]) = 2
         /\ \A c \in Items(pre.cases[e]) : c[2] = child_event
         /\ Cardinality(DesiredValues(pre.l, e)) = 1
         /\ Len(cases[e]) = 1
         /\ Keys(cases[e]) = DesiredValues(pre.l, e)

(* C16: on a flow with a flowchart, with a valid desired list and no No to
   the overwrite question, _applyChanges returns False exactly when some
   desired SwitchCase link (P, v) finds v bound in P to an event other than
   the child; on success every desired (P, v) whose v was absent from P's
   cases is a new case v -> child, and one whose v was bound to the child is
   still that case. *)
C16_ConflictIffBoundElsewhere ==
    (Accepted /\ has_flowchart /\ ~HasDupSwitch(pre.l) /\ ~(last.asked /\ ~last.yes))
    => /\ ~last.ret <=> Conflict(kind, PreG, child_event, pre.l)
       /\ last.ret
          => \A e \in SwitchEvents : \A v \in DesiredValues(pre.l, e) :
               /\ <<v, child_event>> \in Items(cases[e])
               /\ Cardinality({i \in 1..Len(cases[e]) : cases[e][i][1] = v}) = 1
               /\ v \in Keys(pre.cases[e]) => <<v, child_event>> \in Items(pre.cases[e])
\* a successful apply inserted a case for a discriminant the switch did not
\* have, next to a desired case it already had for the child
C16_Witness ==
    /\ Accepted /\ last.ret /\ has_flowchart
    /\ \E e \in SwitchEvents : \E v, w \in DesiredValues(pre.l, e) :
         /\ v \notin Keys(pre.cases[e])
         /\ <<w, child_event>> \in Items(pre.cases[e])
         /\ <<v, child_event>> \in Items(cases[e])
         /\ <<w, child_event>> \in Items(cases[e])

(* C17: ParentLinkModel.isValid() is true in every state of the dialog: the
   list seeded by _gatherExistingLinks and edited by appendLink and removeRow
   never holds two SwitchCase links with the same parent and discriminant,
   and _applyChanges never ends with the duplicate-switch-case error. *)
C17_ListAlwaysValid ==
    /\ ~HasDupSwitch(l)
    /\ Accepted => (~HasDupSwitch(pre.l) /\ last.why # "invalid")
\* a second SwitchCase link for the same parent and discriminant was refused
\* while the list held a SwitchCase link
C17_Witness ==
    /\ last.op = "addParent" /\ last.why = "append" /\ ~last.ret
    /\ last.link.link_type = SwitchCase
    /\ \E i \in 1..Len(l) : LinkEq(l[i], last.link)
    /\ l = pre.l

\* the greater of two numbers
Max(a, b) == IF a >= b THEN a ELSE b

(* C18: for every fork parent F the desired list never holds more ForkBranch
   links than max(1, the number of F's branches to the child when the dialog
   was opened); addParent adds a ForkBranch link for F only to a list
   that holds none for F; and an apply raises F's number of branches to the
   child only from 0 to 1. *)
C18_ForkLinksBounded ==
    /\ \A e \in ForkEvents :
         CountOf(l, e, ForkBranch) <= Max(1, CountOf(seeded, e, ForkBranch))
    /\ (last.op = "addParent" /\ last.ret /\ last.link.link_type = ForkBranch)
       => CountOf(pre.l, last.link.parent, ForkBranch) = 0
    /\ Accepted
       => \A e \in ForkEvents :
            LET before == ChildCount(pre.forks[e], Len(pre.forks[e]), child_event)
                after == ChildCount(forks[e], Len(forks[e]), child_event)
            IN after > before => (before = 0 /\ after = 1)
\* a dialog opened on a fork with two branches to the child, whose list was
\* emptied of them and given one ForkBranch link again
C18_Witness ==
    /\ last.op = "addParent" /\ last.ret /\ last.link.link_type = ForkBranch
    /\ CountOf(seeded, last.link.parent, ForkBranch) = 2
    /\ CountOf(l, last.link.parent, ForkBranch) = 1

(* ================== properties of the timeline window ================= *)
(* C19: when the window is closed with unsaved changes and the user answers
   Save, the close event is accepted only if the flow was written to the
   file (the window does not close with the changes still unwritten);
   Cancel always ignores the close event and Discard always accepts it. *)
C19_CloseAfterSaveOnlyIfWritten ==
    (tlast.op = "closeEvent" /\ tlast.asked)
    => /\ (tlast.reply = "Save" /\ tlast.accepted) => (tlast.wrote \/ ~dirty)
       /\ tlast.reply = "Cancel" => ~tlast.accepted
       /\ tlast.reply = "Discard" => tlast.accepted

\* clip object c is an element of the list cs (the same object)
InClips(c, cs) == \E i \in 1..Len(cs) : cs[i].id = c.id

(* C20: selected_clip is None or an element of the clips of the loaded
   timeline; on_clip_selected changes the selection only for an id within
   0..len(clips)-1; and a confirmed delete_selected_clip removes the selected
   clip from clips and resets selected_clip to None. *)
C20_SelectionInLoadedClips ==
    /\ selected_clip = NoClip \/ InClips(selected_clip, ClipsOf(timeline, clips))
    /\ (tlast.op = "on_clip_selected" /\ selected_clip.id # tlast.sel)
       => (0 <= tlast.arg /\ tlast.arg < tlast.n)
    /\ (tlast.op = "delete_selected_clip" /\ tlast.asked /\ tlast.reply = "Yes")
       => /\ selected_clip = NoClip
          /\ ~\E i \in 1..Len(ClipsOf(timeline, clips)) :
                 ClipsOf(timeline, clips)[i].id = tlast.sel

====
